---- MODULE Spec2Model ----
(***************************************************************************)
(* TradeWizard: the realized P&L and win/loss analytics of                 *)
(* backend/app/modules/tradelog/service.py (TradeLogService).              *)
(*                                                                         *)
(* The state is the trades table, the tag tables, and the position of one  *)
(* get_win_loss_analysis call: the query, the per-symbol / per-trade loop  *)
(* of _calculate_positions_pnl, and the returned WinLossAnalysis.          *)
(*                                                                         *)
(* Numbers.  Quantities are whole units.  Every other Decimal (prices,     *)
(* commissions, averages, P&L) is an integer count of 1/DecScale units, so *)
(* that a Decimal division rounds as Python's does instead of being exact. *)
(* Python values whose type decides the outcome of an operator carry the   *)
(* type with them (PyDecimal, PyFloat).                                    *)
(***************************************************************************)
EXTENDS Integers, Sequences, FiniteSets, TLC

\* ------------------------------------------------------------------ bounds

\* Rows the trades table may hold.
MaxTrades == 3

\* Closing events handed to _calculate_breakdown on its own.
MaxEvents == 4

\* Decimal places the modelled Decimal arithmetic keeps (at least 2).
DecPlaces == 2

\* Units per 1.
DecScale == 10 ^ DecPlaces

D(n) == n * DecScale

Symbols == {"AAPL", "MSFT"}
Sides == {"BUY", "SELL"}
Quantities == {1, 2}
Prices == {D(1), D(2)}
Commissions == {D(0), D(1)}

\* ------------------------------------------------------- Python arithmetic

Abs(x) == IF x < 0 THEN -x ELSE x

Min(a, b) == IF a <= b THEN a ELSE b

\* n / d for d > 0, rounded to the nearest unit, ties to even
\* (decimal's default ROUND_HALF_EVEN).
DivHalfEven(n, d) ==
    LET a == Abs(n)
        q == a \div d
        r == a % d
        up == (2 * r > d) \/ (2 * r = d /\ q % 2 = 1)
        m == IF up THEN q + 1 ELSE q
    IN  IF n < 0 THEN -m ELSE m

\* Decimal / Decimal-or-int with a non-zero divisor.
DecDiv(n, d) == IF d < 0 THEN DivHalfEven(-n, -d) ELSE DivHalfEven(n, d)

\* A float keeps more digits than the Decimals it meets here: it is a count
\* of 1/FloatScale units.
FloatScale == DecScale * DecScale

ScaleOf(ty) == IF ty = "float" THEN FloatScale ELSE DecScale

PyDecimal(v) == [ty |-> "Decimal", v |-> v]
PyFloat(v) == [ty |-> "float", v |-> v]
PyTypeError == [ty |-> "TypeError", v |-> 0]

\* int / int: Python 3 true division, always a float.
PyTrueDiv(a, b) == PyFloat(DivHalfEven(a * FloatScale, b))

\* a * b.  Decimal and float do not mix: decimal.Decimal.__mul__ returns
\* NotImplemented for a float operand and Python raises TypeError.
PyMul(a, b) ==
    IF a.ty = "TypeError" \/ b.ty = "TypeError" THEN PyTypeError
    ELSE IF a.ty # b.ty THEN PyTypeError
    ELSE [ty |-> a.ty, v |-> DivHalfEven(a.v * b.v, ScaleOf(a.ty))]

\* a - b, same typing rule.
PySub(a, b) ==
    IF a.ty = "TypeError" \/ b.ty = "TypeError" THEN PyTypeError
    ELSE IF a.ty # b.ty THEN PyTypeError
    ELSE [ty |-> a.ty, v |-> a.v - b.v]

RECURSIVE SumPnl(_)
SumPnl(ps) == IF ps = <<>> THEN 0 ELSE Head(ps).pnl + SumPnl(Tail(ps))

\* ---------------------------------------------------------------- calendar

\* A datetime is a day number; day 1 is 1 January 2024.

IsLeap(y) == (y % 4 = 0 /\ y % 100 # 0) \/ y % 400 = 0

DaysInMonth(y, m) ==
    IF m \in {4, 6, 9, 11} THEN 30
    ELSE IF m = 2 THEN (IF IsLeap(y) THEN 29 ELSE 28)
    ELSE 31

RECURSIVE DaysBefore(_, _)
\* Days of year y that precede its month m.
DaysBefore(y, m) == IF m = 1 THEN 0 ELSE DaysBefore(y, m - 1) + DaysInMonth(y, m - 1)

DaysInYear(y) == IF IsLeap(y) THEN 366 ELSE 365

RECURSIVE YearStart(_)
\* Day number of 1 January of year y, minus one.
YearStart(y) == IF y = 2024 THEN 0 ELSE YearStart(y - 1) + DaysInYear(y - 1)

DateTime(y, m, d) == YearStart(y) + DaysBefore(y, m) + d

RECURSIVE YearOf(_, _)
YearOf(day, y) == IF day <= YearStart(y) + DaysInYear(y) THEN y ELSE YearOf(day, y + 1)

RECURSIVE MonthOf(_, _, _)
MonthOf(day, y, m) ==
    IF day <= YearStart(y) + DaysBefore(y, m) + DaysInMonth(y, m) THEN m
    ELSE MonthOf(day, y, m + 1)

\* strftime('%Y-%m'): the pair <<year, month>>; pairs order as the strings do.
StrftimeYm(day) == LET y == YearOf(day, 2024) IN <<y, MonthOf(day, y, 1)>>

\* datetime.now() of the analysis call.
Now == DateTime(2025, 3, 1)

\* datetime.min
DateTimeMin == 0

TimePeriods == {"all", "1m", "3m", "6m", "1y", "ytd"}

_get_cutoff_date(time_period) ==
    IF time_period = "1m" THEN Now - 30
    ELSE IF time_period = "3m" THEN Now - 90
    ELSE IF time_period = "6m" THEN Now - 180
    ELSE IF time_period = "1y" THEN Now - 365
    ELSE IF time_period = "ytd" THEN DateTime(YearOf(Now, 2024), 1, 1)
    ELSE DateTimeMin

\* Trade dates the model draws: 15 January and 20 February 2025, one on each
\* side of the "1m" cutoff.
TradeDates == {DateTime(2025, 1, 15), DateTime(2025, 2, 20)}

\* ------------------------------------------------------------------- state

VARIABLES
    trade_table,            \* rows of Trade, in the order the database returns
                            \* rows of equal trade_date
    trade_tags,             \* rows of TradeTag: [id, name]
    trade_tag_associations, \* rows of TradeTagAssociation: [trade_id, tag_id]
    pc,                     \* "idle" | "loop" | "done": the analysis call
    time_period,            \* the selector the call was made with
    trades,                 \* the query's result
    positions,              \* symbol -> list of trades, in insertion order
    sym_i,                  \* the symbol the outer loop is at (0: before it)
    i,                      \* the trade the inner loop is at (1-based)
    position_qty,
    avg_price,
    position_results,       \* the closing events so far
    analysis,               \* the returned WinLossAnalysis
    caught,                 \* the exception the handler printed, "" if none
    breakdown,              \* what a direct call of _calculate_breakdown gave
    views,                  \* what direct calls of the _analyze_by_ methods gave
    stats                   \* what get_dashboard_stats gave

vars == <<trade_table, trade_tags, trade_tag_associations, pc, time_period,
          trades, positions, sym_i, i, position_qty, avg_price,
          position_results, analysis, caught, breakdown, views, stats>>

tables == <<trade_table, trade_tags, trade_tag_associations>>

loop_vars == <<positions, sym_i, i, position_qty, avg_price, position_results>>

\* ----------------------------------------------------------------- helpers

RECURSIVE InsertByDate(_, _)
\* t put after every element whose trade_date is <= its own.
InsertByDate(s, t) ==
    IF s = <<>> THEN <<t>>
    ELSE IF Head(s).trade_date <= t.trade_date
         THEN <<Head(s)>> \o InsertByDate(Tail(s), t)
         ELSE <<t>> \o s

RECURSIVE SortTiesReversed(_)
\* A sort by trade_date that puts a trade before the earlier ones of its date.
SortTiesReversed(s) ==
    IF s = <<>> THEN <<>>
    ELSE LET t == s[Len(s)]
             rest == SortTiesReversed(SubSeq(s, 1, Len(s) - 1))
         IN  SelectSeq(rest, LAMBDA u : u.trade_date < t.trade_date) \o <<t>>
                 \o SelectSeq(rest, LAMBDA u : u.trade_date >= t.trade_date)

RECURSIVE SortByTradeDate(_)
\* list.sort(key=lambda x: x.trade_date): ascending and stable.
SortByTradeDate(s) ==
    IF s = <<>> THEN <<>>
    ELSE InsertByDate(SortByTradeDate(SubSeq(s, 1, Len(s) - 1)), s[Len(s)])

\* The query without its trade_date filter: every trade of the user.
QueryAllTrades(tp) == SortByTradeDate(trade_table)

\* The query of get_win_loss_analysis: the user's trades, from the cutoff on
\* when a period is selected, ordered by trade_date.
QueryTrades(tp) ==
    LET cutoff_date == _get_cutoff_date(tp)
        kept == IF tp # "all"
                THEN SelectSeq(trade_table, LAMBDA t : t.trade_date >= cutoff_date)
                ELSE trade_table
    IN  SortByTradeDate(kept)

\* The grouping left out: every trade in the list of the first symbol.
GroupAllTogether(ts) ==
    IF ts = <<>> THEN <<>> ELSE <<[symbol |-> ts[1].symbol, symbol_trades |-> ts]>>

RECURSIVE GroupBySymbol(_)
\* positions[trade.symbol].append(trade) over the list; keys keep the order
\* of their first appearance.
GroupBySymbol(ts) ==
    IF ts = <<>> THEN <<>>
    ELSE LET g == GroupBySymbol(SubSeq(ts, 1, Len(ts) - 1))
             t == ts[Len(ts)]
         IN  IF \E k \in 1..Len(g) : g[k].symbol = t.symbol
             THEN [k \in 1..Len(g) |->
                     IF g[k].symbol = t.symbol
                     THEN [g[k] EXCEPT !.symbol_trades = Append(@, t)]
                     ELSE g[k]]
             ELSE Append(g, [symbol |-> t.symbol, symbol_trades |-> <<t>>])

\* All orders in which a query without ORDER BY may return the rows of S.
Orders(S) ==
    {s \in [1..Cardinality(S) -> S] : \A a, b \in 1..Cardinality(S) : a # b => s[a] # s[b]}

\* The tag names of a trade as lines 393-400 collect them: one lookup per
\* association, an association whose tag is missing is skipped.
TagNames(trade_id) ==
    LET assocs == {ta \in trade_tag_associations : ta.trade_id = trade_id}
        found(ta) == \E tag \in trade_tags : tag.id = ta.tag_id
        name(ta) == (CHOOSE tag \in trade_tags : tag.id = ta.tag_id).name
    IN  {[k \in 1..Len(SelectSeq(o, found)) |-> name(SelectSeq(o, found)[k])] : o \in Orders(assocs)}

NoAnalysis == [returned |-> FALSE]

NoBreakdown == [called |-> FALSE]

NoViews == [called |-> FALSE]

NoStats == [called |-> FALSE]

\* The WinLossBreakdown of _empty_breakdown.
_empty_breakdown ==
    [raised |-> FALSE, wins |-> 0, losses |-> 0, breakeven |-> 0,
     win_rate |-> 0, avg_win |-> 0, avg_loss |-> 0,
     profit_factor |-> [inf |-> FALSE, v |-> 0], expectancy |-> 0]

\* The analysis of the except clause with the period left at its default.
EmptyAnalysisAll(tp) ==
    [returned |-> TRUE, overall |-> _empty_breakdown, by_timeframe |-> <<>>,
     by_symbol |-> <<>>, by_strategy |-> <<>>, time_period |-> "all"]

\* The analysis of lines 297-303 and 331-337.
EmptyAnalysis(tp) ==
    [returned |-> TRUE, overall |-> _empty_breakdown, by_timeframe |-> <<>>,
     by_symbol |-> <<>>, by_strategy |-> <<>>, time_period |-> tp]

\* ------------------------------------------------------------------ tables

Init ==
    /\ trade_table = <<>>
    /\ trade_tags = {}
    /\ trade_tag_associations = {}
    /\ pc = "idle"
    /\ time_period = ""
    /\ trades = <<>>
    /\ positions = <<>>
    /\ sym_i = 0
    /\ i = 0
    /\ position_qty = 0
    /\ avg_price = 0
    /\ position_results = <<>>
    /\ analysis = NoAnalysis
    /\ caught = ""
    /\ breakdown = NoBreakdown
    /\ views = NoViews
    /\ stats = NoStats

\* create_trade: one more row in the trades table.
create_trade(symbol, quantity, price, side, trade_date, commission) ==
    /\ pc = "idle"
    /\ Len(trade_table) < MaxTrades
    /\ trade_table' = Append(trade_table,
            [id |-> Len(trade_table) + 1, symbol |-> symbol, quantity |-> quantity,
             price |-> price, side |-> side, trade_date |-> trade_date,
             commission |-> commission])
    /\ UNCHANGED <<trade_tags, trade_tag_associations, pc, time_period, trades,
                   loop_vars, analysis, caught, breakdown, views, stats>>

\* ------------------------------------------------- get_win_loss_analysis

\* Lines 283-306 and 358-365: the query, the early return on no trades, and
\* the grouping by symbol that opens _calculate_positions_pnl.
get_win_loss_analysis(tp) ==
    /\ pc = "idle"
    /\ time_period' = tp
    /\ trades' = QueryTrades(tp)
    /\ IF trades' = <<>>
       THEN /\ pc' = "done"
            /\ analysis' = EmptyAnalysis(tp)
            /\ UNCHANGED loop_vars
       ELSE /\ pc' = "loop"
            /\ positions' = GroupBySymbol(trades')
            /\ sym_i' = 0
            /\ i' = 0
            /\ position_results' = <<>>
            /\ UNCHANGED <<position_qty, avg_price, analysis>>
    /\ UNCHANGED <<tables, caught, breakdown, views, stats>>

\* The list the inner loop runs over, and its current trade.
symbol_trades == IF sym_i = 0 THEN <<>> ELSE positions[sym_i].symbol_trades

InnerLoopDone == sym_i = 0 \/ i > Len(symbol_trades)

trade == symbol_trades[i]

\* The outer loop without lines 371-372: the open quantity and the average of
\* the symbol before are carried into the next one.
NextSymbolCarriesPosition ==
    /\ pc = "loop"
    /\ InnerLoopDone
    /\ sym_i < Len(positions)
    /\ sym_i' = sym_i + 1
    /\ positions' = [positions EXCEPT ![sym_i + 1].symbol_trades = SortByTradeDate(@)]
    /\ i' = 1
    /\ UNCHANGED <<tables, pc, time_period, trades, position_qty, avg_price,
                   position_results, analysis, caught, breakdown, views, stats>>

\* Lines 367-371: the outer loop takes the next symbol, sorts its trades and
\* starts from a flat position.
NextSymbol ==
    /\ pc = "loop"
    /\ InnerLoopDone
    /\ sym_i < Len(positions)
    /\ sym_i' = sym_i + 1
    /\ positions' = [positions EXCEPT ![sym_i + 1].symbol_trades = SortByTradeDate(@)]
    /\ position_qty' = 0
    /\ avg_price' = 0
    /\ i' = 1
    /\ UNCHANGED <<tables, pc, time_period, trades, position_results, analysis, caught, breakdown, views, stats>>

\* The plain mean of the old average and the new price.
SimpleAverage(avg, qty, price, quantity) == DecDiv(avg + price, 2)

\* Line 378: the weighted average after buying quantity at price.
WeightedAverage(avg, qty, price, quantity) ==
    DecDiv((avg * qty) + (price * quantity), qty + quantity)

\* Lines 374-379: a BUY.
ProcessBuy ==
    /\ pc = "loop"
    /\ ~InnerLoopDone
    /\ trade.side = "BUY"
    /\ position_qty = 0 \/ position_qty + trade.quantity # 0
    /\ avg_price' = IF position_qty = 0
                    THEN trade.price
                    ELSE WeightedAverage(avg_price, position_qty, trade.price, trade.quantity)
    /\ position_qty' = position_qty + trade.quantity
    /\ i' = i + 1
    /\ UNCHANGED <<tables, pc, time_period, trades, positions, sym_i,
                   position_results, analysis, caught, breakdown, views, stats>>

\* Line 378 when position_qty + trade.quantity is 0 (a BUY of a negative
\* quantity): the Decimal division raises, the except clause of lines 328-337
\* catches it and the empty analysis is returned.
BuyRaises ==
    /\ pc = "loop"
    /\ ~InnerLoopDone
    /\ trade.side = "BUY"
    /\ position_qty # 0
    /\ position_qty + trade.quantity = 0
    /\ analysis' = EmptyAnalysis(time_period)
    /\ caught' = IF (avg_price * position_qty) + (trade.price * trade.quantity) = 0
                 THEN "InvalidOperation" ELSE "DivisionByZero"
    /\ pc' = "done"
    /\ UNCHANGED <<tables, time_period, trades, loop_vars, breakdown, views, stats>>

\* Line 384 without the min: the whole SELL quantity is closed.
CloseQtyWholeSell(quantity, qty) == quantity

\* Line 384.
CloseQty(quantity, qty) == Min(quantity, qty)

\* Line 385 with the commission left out.
RealizedPnlGross(price, avg, close_qty, commission) ==
    (price - avg) * close_qty

\* Line 385.
RealizedPnl(price, avg, close_qty, commission) ==
    (price - avg) * close_qty - commission

\* Line 388 narrowed to the BUY that opened the list: the first BUY before
\* position i, not every one.
FirstOpeningTrade(ts, k) ==
    LET buys == SelectSeq(SubSeq(ts, 1, k - 1), LAMBDA t : t.side = "BUY")
    IN  IF buys = <<>> THEN <<>> ELSE <<buys[1]>>

\* Line 388 without the slice: the BUY trades anywhere in the symbol's list.
OpeningTradesAnywhere(ts, k) == SelectSeq(ts, LAMBDA t : t.side = "BUY")

\* Line 388: the BUY trades before position i of the symbol's list.
OpeningTrades(ts, k) == SelectSeq(SubSeq(ts, 1, k - 1), LAMBDA t : t.side = "BUY")

\* Line 382 with >= for >: a SELL is matched against a flat position too.
SellMatchesFlat(qty) == qty >= 0

\* Line 382: a SELL (any side but BUY) is matched only against an open position.
SellMatches(qty) == qty > 0

\* Lines 381-417 with line 413 taking the whole SELL quantity off the open
\* quantity instead of close_qty.
ProcessSellWholeQuantity ==
    /\ pc = "loop"
    /\ ~InnerLoopDone
    /\ trade.side # "BUY"
    /\ SellMatches(position_qty)
    /\ LET close_qty == CloseQty(trade.quantity, position_qty)
           pnl == RealizedPnl(trade.price, avg_price, close_qty, trade.commission)
           opening_trades == OpeningTrades(symbol_trades, i)
           last_open == opening_trades[Len(opening_trades)]
       IN  /\ \E tags \in (IF opening_trades # <<>> THEN TagNames(last_open.id) ELSE {<<>>}) :
                position_results' = Append(position_results,
                    [symbol |-> positions[sym_i].symbol,
                     pnl |-> pnl,
                     close_date |-> trade.trade_date,
                     quantity |-> close_qty,
                     entry_price |-> avg_price,
                     exit_price |-> trade.price,
                     tags |-> tags,
                     hold_time |-> IF opening_trades # <<>>
                                   THEN trade.trade_date - last_open.trade_date
                                   ELSE 0])
           /\ position_qty' = position_qty - trade.quantity
           /\ avg_price' = IF position_qty - trade.quantity = 0 THEN 0 ELSE avg_price
    /\ i' = i + 1
    /\ UNCHANGED <<tables, pc, time_period, trades, positions, sym_i, analysis, caught, breakdown, views, stats>>

\* Lines 381-417 with the position open: one closing event.
ProcessSell ==
    /\ pc = "loop"
    /\ ~InnerLoopDone
    /\ trade.side # "BUY"
    /\ SellMatches(position_qty)
    /\ LET close_qty == CloseQty(trade.quantity, position_qty)
           pnl == RealizedPnl(trade.price, avg_price, close_qty, trade.commission)
           opening_trades == OpeningTrades(symbol_trades, i)
           last_open == opening_trades[Len(opening_trades)]
       IN  /\ \E tags \in (IF opening_trades # <<>> THEN TagNames(last_open.id) ELSE {<<>>}) :
                position_results' = Append(position_results,
                    [symbol |-> positions[sym_i].symbol,
                     pnl |-> pnl,
                     close_date |-> trade.trade_date,
                     quantity |-> close_qty,
                     entry_price |-> avg_price,
                     exit_price |-> trade.price,
                     tags |-> tags,
                     hold_time |-> IF opening_trades # <<>>
                                   THEN trade.trade_date - last_open.trade_date
                                   ELSE 0])
           /\ position_qty' = position_qty - close_qty
           /\ avg_price' = IF position_qty - close_qty = 0 THEN 0 ELSE avg_price
    /\ i' = i + 1
    /\ UNCHANGED <<tables, pc, time_period, trades, positions, sym_i, analysis, caught, breakdown, views, stats>>

\* Lines 381-382 with no open position: the SELL is passed over.
SkipSell ==
    /\ pc = "loop"
    /\ ~InnerLoopDone
    /\ trade.side # "BUY"
    /\ ~SellMatches(position_qty)
    /\ i' = i + 1
    /\ UNCHANGED <<tables, pc, time_period, trades, positions, sym_i, position_qty,
                   avg_price, position_results, analysis, caught, breakdown, views, stats>>

\* ------------------------------------------------------ _calculate_breakdown

\* round(x, 2) of a float that holds v units of 1/scale, in 1/DecScale units.
Round2(v, scale) == DivHalfEven(v, scale \div 100) * (DecScale \div 100)

IsWin(p) == p.pnl > 0
IsLoss(p) == p.pnl < 0
IsBreakeven(p) == p.pnl = 0

\* Line 441: (win_pct * avg_win) - (loss_pct * avg_loss), the percentages
\* floats (or the int 0 of an empty list) and the averages Decimals.
Expectancy(win_pct, avg_win, loss_pct, avg_loss) ==
    PySub(PyMul(win_pct, PyDecimal(avg_win)), PyMul(loss_pct, PyDecimal(avg_loss)))

\* Line 436.
ProfitFactor(total_wins, total_losses) ==
    IF total_losses > 0 THEN [inf |-> FALSE, v |-> DecDiv(total_wins * DecScale, total_losses)]
    ELSE IF total_wins > 0 THEN [inf |-> TRUE, v |-> 0]
    ELSE [inf |-> FALSE, v |-> 0]

\* Lines 421-452.  The result is the WinLossBreakdown returned, or the
\* exception raised on the way.
_calculate_breakdown(ps) ==
    IF ps = <<>> THEN _empty_breakdown
    ELSE
    LET wins == SelectSeq(ps, IsWin)
        losses == SelectSeq(ps, IsLoss)
        breakeven == SelectSeq(ps, IsBreakeven)
        total_wins == IF wins # <<>> THEN SumPnl(wins) ELSE 0
        total_losses == IF losses # <<>> THEN Abs(SumPnl(losses)) ELSE 0
        win_rate == PyTrueDiv(Len(wins), Len(ps)).v * 100
        avg_win == IF wins # <<>> THEN DecDiv(total_wins, Len(wins)) ELSE 0
        avg_loss == IF losses # <<>> THEN DecDiv(total_losses, Len(losses)) ELSE 0
        profit_factor == ProfitFactor(total_wins, total_losses)
        win_pct == PyTrueDiv(Len(wins), Len(ps))
        loss_pct == PyTrueDiv(Len(losses), Len(ps))
        expectancy == Expectancy(win_pct, avg_win, loss_pct, avg_loss)
    IN  IF expectancy.ty = "TypeError"
        THEN [raised |-> TRUE, exc |-> "TypeError"]
        ELSE [raised |-> FALSE, wins |-> Len(wins), losses |-> Len(losses),
              breakeven |-> Len(breakeven), win_rate |-> Round2(win_rate, FloatScale),
              avg_win |-> avg_win, avg_loss |-> avg_loss,
              profit_factor |-> [profit_factor EXCEPT !.v = Round2(@, DecScale)],
              expectancy |-> expectancy.v]

\* ---------------------------------------------------------------- grouping

Indices(s) == [k \in 1..Len(s) |-> k]

\* The keys of a defaultdict(list) filled in the order of keys: each key once,
\* in the order of its first appearance.
KeyOrder(keys) ==
    LET first == SelectSeq(Indices(keys), LAMBDA k : \A j \in 1..(k - 1) : keys[j] # keys[k])
    IN  [n \in 1..Len(first) |-> keys[first[n]]]

\* The list stored under key: the items appended with it, in order.
Members(items, keys, key) ==
    LET at == SelectSeq(Indices(keys), LAMBDA k : keys[k] = key)
    IN  [n \in 1..Len(at) |-> items[at[n]]]

RECURSIVE InsertByPnlDesc(_, _)
\* r put after every row whose total_pnl is >= its own.
InsertByPnlDesc(s, r) ==
    IF s = <<>> THEN <<r>>
    ELSE IF Head(s).total_pnl >= r.total_pnl
         THEN <<Head(s)>> \o InsertByPnlDesc(Tail(s), r)
         ELSE <<r>> \o s

RECURSIVE SortByPnlDesc(_)
\* results.sort(key=lambda x: x.total_pnl, reverse=True): descending, stable.
SortByPnlDesc(s) ==
    IF s = <<>> THEN <<>>
    ELSE InsertByPnlDesc(SortByPnlDesc(SubSeq(s, 1, Len(s) - 1)), s[Len(s)])

\* <<year, month>> pairs in the order of their strings.
PeriodLess(a, b) == a[1] < b[1] \/ (a[1] = b[1] /\ a[2] < b[2])

RECURSIVE InsertByPeriod(_, _)
InsertByPeriod(s, key) ==
    IF s = <<>> THEN <<key>>
    ELSE IF PeriodLess(key, Head(s)) THEN <<key>> \o s
    ELSE <<Head(s)>> \o InsertByPeriod(Tail(s), key)

RECURSIVE SortPeriods(_)
\* sorted(monthly_groups.items()): ascending by the (distinct) period keys.
SortPeriods(s) ==
    IF s = <<>> THEN <<>>
    ELSE InsertByPeriod(SortPeriods(SubSeq(s, 1, Len(s) - 1)), s[Len(s)])

AnyRaised(rows) == \E k \in 1..Len(rows) : rows[k].breakdown.raised

\* What a grouping method hands back: its rows, or the exception of the
\* first _calculate_breakdown that raised.
Returned(rows) ==
    IF AnyRaised(rows) THEN [raised |-> TRUE, exc |-> "TypeError"]
    ELSE [raised |-> FALSE, rows |-> rows]

\* Lines 467-491.
_analyze_by_timeframe(ps) ==
    IF ps = <<>> THEN [raised |-> FALSE, rows |-> <<>>]
    ELSE
    LET keys == [k \in 1..Len(ps) |-> StrftimeYm(ps[k].close_date)]
        periods == SortPeriods(KeyOrder(keys))
        row(period) ==
            LET period_positions == Members(ps, keys, period)
            IN  [period |-> period, timeframe_type |-> "monthly",
                 breakdown |-> _calculate_breakdown(period_positions),
                 total_pnl |-> SumPnl(period_positions),
                 trade_count |-> Len(period_positions)]
    IN  Returned([n \in 1..Len(periods) |-> row(periods[n])])

RECURSIVE SumHours(_)
SumHours(ps) == IF ps = <<>> THEN 0 ELSE D(Head(ps).hold_time * 24) + SumHours(Tail(ps))

\* Lines 493-521.
_analyze_by_symbol(ps) ==
    IF ps = <<>> THEN [raised |-> FALSE, rows |-> <<>>]
    ELSE
    LET keys == [k \in 1..Len(ps) |-> ps[k].symbol]
        symbols == KeyOrder(keys)
        row(symbol) ==
            LET symbol_positions == Members(ps, keys, symbol)
                timed == SelectSeq(symbol_positions, LAMBDA p : p.hold_time # 0)
            IN  [symbol |-> symbol,
                 breakdown |-> _calculate_breakdown(symbol_positions),
                 total_pnl |-> SumPnl(symbol_positions),
                 trade_count |-> Len(symbol_positions),
                 avg_hold_time_hours |->
                     IF timed # <<>>
                     THEN [none |-> FALSE, v |-> DivHalfEven(SumHours(timed), Len(timed))]
                     ELSE [none |-> TRUE, v |-> 0]]
    IN  Returned(SortByPnlDesc([n \in 1..Len(symbols) |-> row(symbols[n])]))

RECURSIVE StrategyEntries(_)
\* Lines 531-536 as the list of (bucket, event) appends they make.
StrategyEntries(ps) ==
    IF ps = <<>> THEN <<>>
    ELSE LET pos == Head(ps)
         IN  (IF pos.tags # <<>>
              THEN [k \in 1..Len(pos.tags) |-> [strategy |-> pos.tags[k], pos |-> pos]]
              ELSE <<[strategy |-> "No Strategy", pos |-> pos]>>)
             \o StrategyEntries(Tail(ps))

\* Lines 528-536: strategy_groups once the loop over the events is done, the
\* keys in the order of their first appearance.
strategy_groups(ps) ==
    LET entries == StrategyEntries(ps)
        keys == [k \in 1..Len(entries) |-> entries[k].strategy]
        items == [k \in 1..Len(entries) |-> entries[k].pos]
        strategies == KeyOrder(keys)
    IN  [n \in 1..Len(strategies) |->
            [strategy |-> strategies[n],
             strategy_positions |-> Members(items, keys, strategies[n])]]

\* Lines 523-552.
_analyze_by_strategy(ps) ==
    IF ps = <<>> THEN [raised |-> FALSE, rows |-> <<>>]
    ELSE
    LET entries == StrategyEntries(ps)
        keys == [k \in 1..Len(entries) |-> entries[k].strategy]
        items == [k \in 1..Len(entries) |-> entries[k].pos]
        strategies == KeyOrder(keys)
        row(strategy) ==
            LET strategy_positions == Members(items, keys, strategy)
            IN  [strategy |-> strategy,
                 breakdown |-> _calculate_breakdown(strategy_positions),
                 total_pnl |-> SumPnl(strategy_positions),
                 trade_count |-> Len(strategy_positions)]
    IN  Returned(SortByPnlDesc([n \in 1..Len(strategies) |-> row(strategies[n])]))

\* Lines 306-337, once _calculate_positions_pnl has gone through every symbol:
\* the four views, or the empty analysis of the except clause when one of
\* them raised.
Analyse ==
    /\ pc = "loop"
    /\ InnerLoopDone
    /\ sym_i = Len(positions)
    /\ LET positions_data == position_results
           overall == _calculate_breakdown(positions_data)
           by_timeframe == _analyze_by_timeframe(positions_data)
           by_symbol == _analyze_by_symbol(positions_data)
           by_strategy == _analyze_by_strategy(positions_data)
           raised == overall.raised \/ by_timeframe.raised \/ by_symbol.raised
                        \/ by_strategy.raised
       IN  /\ analysis' = IF raised
                          THEN EmptyAnalysis(time_period)
                          ELSE [returned |-> TRUE, overall |-> overall,
                                by_timeframe |-> by_timeframe.rows,
                                by_symbol |-> by_symbol.rows,
                                by_strategy |-> by_strategy.rows,
                                time_period |-> time_period]
           /\ caught' = IF raised THEN "TypeError" ELSE ""
    /\ pc' = "done"
    /\ UNCHANGED <<tables, time_period, trades, loop_vars, breakdown, views, stats>>

\* ----------------------------------------------------------- specification

\* The trades the reconstruction claims are checked on: one symbol, one date,
\* every side, quantity, price and commission.
Next ==
    \/ \E quantity \in Quantities, price \in Prices, side \in Sides, commission \in Commissions :
          create_trade("AAPL", quantity, price, side, DateTime(2025, 2, 20), commission)
    \/ get_win_loss_analysis("all")
    \/ NextSymbol
    \/ ProcessBuy
    \/ ProcessSell
    \/ SkipSell
    \/ Analyse

Spec == Init /\ [][Next]_vars

\* The trades the analysis claims are checked on: two symbols, two dates (one
\* before the "1m" cutoff), unit quantities and no commission.
NextAnalysis ==
    \/ \E symbol \in Symbols, price \in Prices, side \in Sides, trade_date \in TradeDates :
          create_trade(symbol, 1, price, side, trade_date, D(0))
    \/ \E tp \in {"all", "1m"} : get_win_loss_analysis(tp)
    \/ NextSymbol
    \/ ProcessBuy
    \/ ProcessSell
    \/ SkipSell
    \/ Analyse

SpecAnalysis == Init /\ [][NextAnalysis]_vars

\* A closing event of the given pnl: one unit bought at 3 and sold at 3 + pnl.
ClosingEvent(pnl) ==
    [symbol |-> "AAPL", pnl |-> pnl, close_date |-> DateTime(2025, 2, 20),
     quantity |-> 1, entry_price |-> D(3), exit_price |-> D(3) + pnl,
     tags |-> <<>>, hold_time |-> 0]

PnlValues == {D(-2), D(-1), D(0), D(1), D(2)}

EventLists ==
    UNION {[1..n -> {ClosingEvent(pnl) : pnl \in PnlValues}] : n \in 0..MaxEvents}

\* _calculate_breakdown called on its own, on any list of closing events.
InitBreakdown ==
    /\ trade_table = <<>>
    /\ trade_tags = {}
    /\ trade_tag_associations = {}
    /\ pc = "direct"
    /\ time_period = ""
    /\ trades = <<>>
    /\ positions = <<>>
    /\ sym_i = 0
    /\ i = 0
    /\ position_qty = 0
    /\ avg_price = 0
    /\ position_results \in EventLists
    /\ analysis = NoAnalysis
    /\ caught = ""
    /\ breakdown = NoBreakdown
    /\ views = NoViews
    /\ stats = NoStats

calculate_breakdown ==
    /\ pc = "direct"
    /\ breakdown' = [called |-> TRUE, result |-> _calculate_breakdown(position_results)]
    /\ pc' = "done"
    /\ UNCHANGED <<tables, time_period, trades, loop_vars, analysis, caught,
                   views, stats>>

NextBreakdown == calculate_breakdown

SpecBreakdown == InitBreakdown /\ [][NextBreakdown]_vars

\* Closing events handed to the _analyze_by_ methods on their own.
MaxViewEvents == 2

\* The tag lists of the events drawn: none, one, two, two tags of the same
\* name (trade_tags.name is not unique) and a tag named like the bucket of
\* the untagged events.
TagLists == {<<>>, <<"swing">>, <<"swing", "scalp">>, <<"swing", "swing">>, <<"No Strategy">>}

\* A closing event for the grouping methods: one unit bought at 3 and sold
\* at 3 + pnl on close_date.
ViewEvent(symbol, pnl, close_date, tags) ==
    [symbol |-> symbol, pnl |-> pnl, close_date |-> close_date,
     quantity |-> 1, entry_price |-> D(3), exit_price |-> D(3) + pnl,
     tags |-> tags, hold_time |-> 0]

ViewEvents ==
    {ViewEvent(symbol, pnl, close_date, tags) :
        symbol \in Symbols, pnl \in {D(-1), D(0), D(1)},
        close_date \in TradeDates, tags \in TagLists}

\* The lists of at most max_len closing events.
ViewEventLists(max_len) == UNION {[1..n -> ViewEvents] : n \in 0..max_len}

\* The three grouping methods called on their own, on any list of closing
\* events.
InitViews ==
    /\ trade_table = <<>>
    /\ trade_tags = {}
    /\ trade_tag_associations = {}
    /\ pc = "direct"
    /\ time_period = ""
    /\ trades = <<>>
    /\ positions = <<>>
    /\ sym_i = 0
    /\ i = 0
    /\ position_qty = 0
    /\ avg_price = 0
    /\ position_results \in ViewEventLists(MaxViewEvents)
    /\ analysis = NoAnalysis
    /\ caught = ""
    /\ breakdown = NoBreakdown
    /\ views = NoViews
    /\ stats = NoStats

analyze_views ==
    /\ pc = "direct"
    /\ views' = [called |-> TRUE,
                 by_timeframe |-> _analyze_by_timeframe(position_results),
                 by_symbol |-> _analyze_by_symbol(position_results),
                 by_strategy |-> _analyze_by_strategy(position_results)]
    /\ pc' = "done"
    /\ UNCHANGED <<tables, time_period, trades, loop_vars, analysis, caught,
                   breakdown, stats>>

NextViews == analyze_views

SpecViews == InitViews /\ [][NextViews]_vars

\* ---------------------------------------------------- get_dashboard_stats

\* Lines 128-129 and 114-115: the running state of the position loop.  position
\* and avg_price start again at 0 with every symbol, total_pnl and
\* winning_trades run over all symbols.
DashboardStart ==
    [position |-> 0, avg_price |-> 0, total_pnl |-> 0, winning_trades |-> 0,
     raised |-> FALSE, exc |-> ""]

\* Lines 131-144: one trade of a symbol.  Line 136 divides by
\* position + trade.quantity, which is 0 when the position has gone short by
\* the quantity now bought: decimal raises DivisionByZero, or InvalidOperation
\* when the numerator is 0 as well.
DashboardTrade(st, t) ==
    IF st.raised THEN st
    ELSE IF t.side = "BUY"
    THEN IF st.position = 0
         THEN [st EXCEPT !.avg_price = t.price, !.position = @ + t.quantity]
         ELSE IF st.position + t.quantity = 0
         THEN [st EXCEPT !.raised = TRUE,
                         !.exc = IF (st.avg_price * st.position) + (t.price * t.quantity) = 0
                                 THEN "InvalidOperation" ELSE "DivisionByZero"]
         ELSE [st EXCEPT !.avg_price = DecDiv((st.avg_price * st.position) + (t.price * t.quantity),
                                              st.position + t.quantity),
                         !.position = @ + t.quantity]
    ELSE IF st.position > 0
    THEN LET pnl == (t.price - st.avg_price) * Min(t.quantity, st.position)
         IN  [st EXCEPT !.total_pnl = @ + pnl,
                        !.winning_trades = IF pnl > 0 THEN @ + 1 ELSE @,
                        !.position = @ - t.quantity]
    ELSE st

RECURSIVE DashboardSymbol(_, _)
\* Lines 131-144: the inner loop over the trades of one symbol.
DashboardSymbol(st, ts) ==
    IF ts = <<>> THEN st
    ELSE DashboardTrade(DashboardSymbol(st, SubSeq(ts, 1, Len(ts) - 1)), ts[Len(ts)])

RECURSIVE DashboardPositions(_, _)
\* Lines 126-144: the loop over positions.items(), each list sorted by
\* trade_date first.
DashboardPositions(st, groups) ==
    IF groups = <<>> THEN st
    ELSE LET before == DashboardPositions(st, SubSeq(groups, 1, Len(groups) - 1))
         IN  DashboardSymbol([before EXCEPT !.position = 0, !.avg_price = 0],
                             SortByTradeDate(groups[Len(groups)].symbol_trades))

RECURSIVE SumCommission(_)
\* Line 116.
SumCommission(ts) == IF ts = <<>> THEN 0 ELSE Head(ts).commission + SumCommission(Tail(ts))

\* The win rate over the SELLs alone.
WinRateOfSells(winning_trades, ts) ==
    LET sells == SelectSeq(ts, LAMBDA t : t.side # "BUY")
    IN  IF sells = <<>> THEN 0
        ELSE Round2(PyTrueDiv(winning_trades, Len(sells)).v * 100, FloatScale)

\* Lines 146 and 151: round((winning_trades / len(trades)) * 100, 2), a float.
WinRate(winning_trades, ts) ==
    Round2(PyTrueDiv(winning_trades, Len(ts)).v * 100, FloatScale)

\* The largest price * quantity among the SELLs, 0 without one.
BestSell(ts) ==
    LET sells == SelectSeq(ts, LAMBDA t : t.side # "BUY")
    IN  IF sells = <<>> THEN 0
        ELSE CHOOSE v \in {sells[k].price * sells[k].quantity : k \in 1..Len(sells)} :
                \A k \in 1..Len(sells) : sells[k].price * sells[k].quantity <= v

\* Line 153: max([t.price * t.quantity for t in trades], default=Decimal('0')).
BestTrade(ts) ==
    IF ts = <<>> THEN 0
    ELSE CHOOSE v \in {ts[k].price * ts[k].quantity : k \in 1..Len(ts)} :
            \A k \in 1..Len(ts) : ts[k].price * ts[k].quantity <= v

\* Line 154: min([t.price * t.quantity for t in trades], default=Decimal('0')).
WorstTrade(ts) ==
    IF ts = <<>> THEN 0
    ELSE CHOOSE v \in {ts[k].price * ts[k].quantity : k \in 1..Len(ts)} :
            \A k \in 1..Len(ts) : ts[k].price * ts[k].quantity >= v

\* Lines 105-155 on the trades the query returned: the DashboardStats, or the
\* exception that leaves the position loop.
DashboardStats(ts) ==
    IF ts = <<>>
    THEN [called |-> TRUE, raised |-> FALSE, total_trades |-> 0, total_pnl |-> 0,
          win_rate |-> 0, total_commission |-> 0,
          best_trade |-> [none |-> TRUE, v |-> 0],
          worst_trade |-> [none |-> TRUE, v |-> 0]]
    ELSE LET st == DashboardPositions(DashboardStart, GroupBySymbol(ts))
         IN  IF st.raised
             THEN [called |-> TRUE, raised |-> TRUE, exc |-> st.exc]
             ELSE [called |-> TRUE, raised |-> FALSE, total_trades |-> Len(ts),
                   total_pnl |-> st.total_pnl,
                   win_rate |-> WinRate(st.winning_trades, ts),
                   total_commission |-> SumCommission(ts),
                   best_trade |-> [none |-> FALSE, v |-> BestTrade(ts)],
                   worst_trade |-> [none |-> FALSE, v |-> WorstTrade(ts)]]

\* get_dashboard_stats: the query of lines 101-103 has no ORDER BY, so the
\* rows come in any order; the rest is computed from them.
get_dashboard_stats ==
    /\ pc = "idle"
    /\ \E o \in Orders({trade_table[k] : k \in 1..Len(trade_table)}) :
          /\ trades' = o
          /\ stats' = DashboardStats(o)
    /\ pc' = "done"
    /\ UNCHANGED <<tables, time_period, loop_vars, analysis, caught, breakdown, views>>

NextDashboard ==
    \/ \E quantity \in Quantities, price \in Prices, side \in Sides :
          create_trade("AAPL", quantity, price, side, DateTime(2025, 2, 20), D(1))
    \/ get_dashboard_stats

SpecDashboard == Init /\ [][NextDashboard]_vars

\* The reconstruction on trades that the schema lets through although they
\* are no valid fills: TradeCreate declares side as a str and quantity as a
\* Decimal, without validators.
AnySides == Sides \cup {"HOLD"}

AnyQuantities == {-1, 1}

NextInvalid ==
    \/ \E quantity \in AnyQuantities, price \in Prices, side \in AnySides :
          create_trade("AAPL", quantity, price, side, DateTime(2025, 2, 20), D(0))
    \/ get_win_loss_analysis("all")
    \/ NextSymbol
    \/ ProcessBuy
    \/ BuyRaises
    \/ ProcessSell
    \/ SkipSell
    \/ Analyse

SpecInvalid == Init /\ [][NextInvalid]_vars

\* ------------------------------------------------ _calculate_positions_pnl

\* Trades handed to _calculate_positions_pnl on its own.
MaxFills == 3

\* The lists of at most max_len trades, in any order of symbol and date, each
\* trade given by its symbol, side, trade_date and price.
FillLists(max_len) ==
    UNION {[1..n -> Symbols \X Sides \X TradeDates \X Prices] : n \in 0..max_len}

\* Lines 356-365: _calculate_positions_pnl called on a list of trades, which
\* it groups by symbol.  The trades have unit quantities and no commission,
\* their id is their place in the list.
InitPositions ==
    /\ \E f \in FillLists(MaxFills) :
          trades = [k \in 1..Len(f) |->
                       [id |-> k, symbol |-> f[k][1], quantity |-> 1, price |-> f[k][4],
                        side |-> f[k][2], trade_date |-> f[k][3], commission |-> D(0)]]
    /\ trade_table = trades
    /\ trade_tags = {}
    /\ trade_tag_associations = {}
    /\ pc = "loop"
    /\ time_period = ""
    /\ positions = GroupBySymbol(trades)
    /\ sym_i = 0
    /\ i = 0
    /\ position_qty = 0
    /\ avg_price = 0
    /\ position_results = <<>>
    /\ analysis = NoAnalysis
    /\ caught = ""
    /\ breakdown = NoBreakdown
    /\ views = NoViews
    /\ stats = NoStats

\* Line 419: every symbol has been gone through, position_results is returned.
ReturnPositions ==
    /\ pc = "loop"
    /\ InnerLoopDone
    /\ sym_i = Len(positions)
    /\ pc' = "returned"
    /\ UNCHANGED <<tables, time_period, trades, loop_vars, analysis, caught,
                   breakdown, views, stats>>

NextPositions ==
    \/ NextSymbol
    \/ ProcessBuy
    \/ ProcessSell
    \/ SkipSell
    \/ ReturnPositions

SpecPositions == InitPositions /\ [][NextPositions]_vars

\* ------------------------------------- _calculate_positions_pnl with tags

\* The rows of trade_tags: two tags of the user.
TagRecords == {[id |-> 1, name |-> "swing"], [id |-> 2, name |-> "scalp"]}

\* The tags a trade is associated with: none, one, or both.
TagIdSets == {{}, {1}, {1, 2}}

\* The lists of at most max_len trades of one symbol with their tag ids.
TaggedFillLists(max_len) ==
    UNION {[1..n -> Sides \X TradeDates \X TagIdSets] : n \in 0..max_len}

\* _calculate_positions_pnl called on a list of trades of one symbol while
\* the tables hold tags and associations for them; the second tag may have
\* been deleted with its associations left behind.
InitTags ==
    /\ \E f \in TaggedFillLists(MaxFills) :
          /\ trades = [k \in 1..Len(f) |->
                          [id |-> k, symbol |-> "AAPL", quantity |-> 1, price |-> D(1),
                           side |-> f[k][1], trade_date |-> f[k][2], commission |-> D(0)]]
          /\ trade_tag_associations =
                UNION {{[trade_id |-> k, tag_id |-> t] : t \in f[k][3]} : k \in 1..Len(f)}
    /\ trade_table = trades
    /\ trade_tags \in {TagRecords, {r \in TagRecords : r.id = 1}}
    /\ pc = "loop"
    /\ time_period = ""
    /\ positions = GroupBySymbol(trades)
    /\ sym_i = 0
    /\ i = 0
    /\ position_qty = 0
    /\ avg_price = 0
    /\ position_results = <<>>
    /\ analysis = NoAnalysis
    /\ caught = ""
    /\ breakdown = NoBreakdown
    /\ views = NoViews
    /\ stats = NoStats

SpecTags == InitTags /\ [][NextPositions]_vars

\* ------------------------------------------------- claims: reconstruction

\* The inner loop is about to process a SELL.
AtSell == pc = "loop" /\ ~InnerLoopDone /\ trade.side = "SELL"

\* The inner loop is about to process a BUY.
AtBuy == pc = "loop" /\ ~InnerLoopDone /\ trade.side = "BUY"

\* The step appends exactly one closing event.
EmitsOne == /\ Len(position_results') = Len(position_results) + 1
            /\ SubSeq(position_results', 1, Len(position_results)) = position_results

LastEvent(results) == results[Len(results)]

\* The trade the inner loop processed last.
prev_trade == symbol_trades[i - 1]

AfterStep == pc = "loop" /\ sym_i >= 1 /\ i >= 2

\* C1: a SELL of quantity q, price p and commission c processed while the open
\* quantity is > 0 appends exactly one closing event, with quantity
\* min(q, open quantity), entry price the average held before the SELL, exit
\* price p and pnl (p - average) * closed - c, the whole of c also when less
\* than q is closed; a BUY appends no event and its commission enters neither
\* the average nor any pnl.
C1_SellEmitsOneEvent ==
    [][/\ (AtSell /\ position_qty > 0) =>
            /\ EmitsOne
            /\ LET e == LastEvent(position_results')
                   closed == IF trade.quantity <= position_qty
                             THEN trade.quantity ELSE position_qty
               IN  /\ e.quantity = closed
                   /\ e.entry_price = avg_price
                   /\ e.exit_price = trade.price
                   /\ e.pnl = (trade.price - avg_price) * closed - trade.commission
       /\ AtBuy =>
            /\ position_results' = position_results
            /\ 2 * Abs(avg_price' * (position_qty + trade.quantity)
                         - (avg_price * position_qty + trade.price * trade.quantity))
                  <= position_qty + trade.quantity
      ]_vars

\* C1 witness: a SELL that paid a commission closed less than its quantity,
\* after a BUY that paid a commission too.
C1_Witness ==
    /\ AfterStep
    /\ prev_trade.side = "SELL"
    /\ prev_trade.commission > 0
    /\ position_results # <<>>
    /\ LastEvent(position_results).quantity < prev_trade.quantity
    /\ LastEvent(position_results).pnl =
          (prev_trade.price - LastEvent(position_results).entry_price)
              * LastEvent(position_results).quantity - prev_trade.commission
    /\ symbol_trades[1].side = "BUY"
    /\ symbol_trades[1].commission > 0

\* C2: after every prefix of a symbol's trades the open quantity is >= 0 and
\* the average price is 0 whenever the open quantity is 0.
C2_OpenQuantityNonNegative ==
    /\ position_qty >= 0
    /\ position_qty = 0 => avg_price = 0

\* C2 witness: a SELL larger than the open position has just been processed.
C2_Witness ==
    /\ AfterStep
    /\ prev_trade.side = "SELL"
    /\ position_results # <<>>
    /\ LastEvent(position_results).quantity < prev_trade.quantity
    /\ position_qty = 0
    /\ i = 3

\* C3: a SELL at open quantity 0 appends no event and leaves the open quantity
\* and the average unchanged; a SELL of more than an open quantity > 0 appends
\* one event of exactly the open quantity and leaves the position flat
\* (0, 0), nothing of the excess kept; every event appended has a quantity
\* > 0 and <= the open quantity before its SELL.
C3_NoShortPosition ==
    [][/\ (AtSell /\ position_qty = 0) =>
            UNCHANGED <<position_results, position_qty, avg_price>>
       /\ (AtSell /\ position_qty > 0 /\ trade.quantity > position_qty) =>
            /\ EmitsOne
            /\ LastEvent(position_results').quantity = position_qty
            /\ position_qty' = 0
            /\ avg_price' = 0
       /\ (pc = "loop" /\ position_results' # position_results) =>
            /\ EmitsOne
            /\ LastEvent(position_results').quantity > 0
            /\ LastEvent(position_results').quantity <= position_qty
      ]_vars

\* C3 witness: an oversell was cut to the open quantity and the next SELL
\* found the position flat and was passed over.
C3_Witness ==
    /\ AfterStep
    /\ i = 4
    /\ symbol_trades[1].side = "BUY"
    /\ symbol_trades[2].side = "SELL"
    /\ symbol_trades[2].quantity > symbol_trades[1].quantity
    /\ symbol_trades[3].side = "SELL"
    /\ Len(position_results) = 1
    /\ position_results[1].quantity = symbol_trades[1].quantity
    /\ position_qty = 0

\* ------------------------------------------------------- claims: analysis

Returns == pc = "done" /\ analysis.returned

\* No BUY of the list comes before a SELL of the same symbol: the lists
\* from which no closing event can come.
NoBuyBeforeSell(ts) ==
    \A a, b \in 1..Len(ts) :
        (a < b /\ ts[a].symbol = ts[b].symbol /\ ts[a].side = "BUY") => ts[b].side # "SELL"

\* C4: whenever the trades yield at least one closing event, the analysis
\* returned has an overall breakdown over all of them (wins + losses +
\* breakeven = number of closing events) and non-empty by_timeframe and
\* by_symbol views.
C4_OverallCountsAllEvents ==
    (Returns /\ trades # <<>> /\ position_results # <<>>) =>
        /\ analysis.overall.wins + analysis.overall.losses + analysis.overall.breakeven
              = Len(position_results)
        /\ analysis.by_timeframe # <<>>
        /\ analysis.by_symbol # <<>>

\* C5: when the (possibly time-filtered) list of trades is empty, or yields
\* no closing event, the analysis is returned with no exception on the way
\* and is all zero: no wins, losses or breakeven, zero rates, averages,
\* profit factor and expectancy, and empty views.
C5_EmptyAnalysisWhenNoEvents ==
    (pc = "done" /\ (trades = <<>> \/ position_results = <<>> \/ NoBuyBeforeSell(trades))) =>
        /\ analysis.returned
        /\ caught = ""
        /\ analysis.overall.wins = 0
        /\ analysis.overall.losses = 0
        /\ analysis.overall.breakeven = 0
        /\ analysis.overall.win_rate = 0
        /\ analysis.overall.avg_win = 0
        /\ analysis.overall.avg_loss = 0
        /\ analysis.overall.profit_factor = [inf |-> FALSE, v |-> 0]
        /\ analysis.overall.expectancy = 0
        /\ analysis.by_timeframe = <<>>
        /\ analysis.by_symbol = <<>>
        /\ analysis.by_strategy = <<>>

\* C5 witness: the period cut trades away, the ones left were gone through
\* and gave no closing event.
C5_Witness ==
    /\ Returns
    /\ time_period = "1m"
    /\ trades # <<>>
    /\ Len(trades) < Len(trade_table)
    /\ sym_i = Len(positions)
    /\ sym_i = 2
    /\ position_results = <<>>

\* C5, second case: the period cut every trade away.
C5_WitnessAllFiltered ==
    /\ Returns
    /\ time_period = "1m"
    /\ trade_table # <<>>
    /\ trades = <<>>

\* ------------------------------------------------------ claims: breakdown

\* The events of the list whose pnl is > 0, < 0 and = 0.
WinsOf(ps) == {k \in 1..Len(ps) : ps[k].pnl > 0}
LossesOf(ps) == {k \in 1..Len(ps) : ps[k].pnl < 0}
BreakevenOf(ps) == {k \in 1..Len(ps) : ps[k].pnl = 0}

RECURSIVE SumOver(_, _)
\* The pnl of the events at the indices K, added up.
SumOver(ps, K) ==
    IF K = {} THEN 0
    ELSE LET k == CHOOSE x \in K : TRUE IN ps[k].pnl + SumOver(ps, K \ {k})

\* x is n / d to within the rounding of a few divisions.
IsQuotient(x, n, d) == Abs(x * d - n) <= 2 * d

\* _calculate_breakdown returned a WinLossBreakdown.
BreakdownReturned == breakdown.called /\ ~breakdown.result.raised

\* C6: of any list of closing events the breakdown returned counts as wins
\* the events of pnl > 0, as losses those of pnl < 0 and as breakeven those of
\* pnl = 0, three counts that add up to the length of the list.
C6_CountsPartition ==
    breakdown.called =>
        /\ BreakdownReturned
        /\ breakdown.result.wins = Cardinality(WinsOf(position_results))
        /\ breakdown.result.losses = Cardinality(LossesOf(position_results))
        /\ breakdown.result.breakeven = Cardinality(BreakevenOf(position_results))
        /\ breakdown.result.wins + breakdown.result.losses + breakdown.result.breakeven
              = Len(position_results)

\* C7: the profit factor returned is sum(wins) / |sum(losses)| when there is a
\* loss, the infinity sentinel exactly when there is no loss and at least one
\* win, and 0 when there is neither; nothing is raised on the way.
C7_ProfitFactor ==
    breakdown.called =>
        /\ BreakdownReturned
        /\ LET ps == position_results
               pf == breakdown.result.profit_factor
           IN  /\ pf.inf <=> (LossesOf(ps) = {} /\ WinsOf(ps) # {})
               /\ (LossesOf(ps) = {} /\ WinsOf(ps) = {}) => pf.v = 0
               /\ LossesOf(ps) # {} =>
                     IsQuotient(pf.v, SumOver(ps, WinsOf(ps)) * DecScale,
                                Abs(SumOver(ps, LossesOf(ps))))

\* C8: the win rate returned is 100 * wins / total for a non-empty list and 0
\* for the empty one, lies in [0, 100] and is 100 only when every event is a
\* win.
C8_WinRate ==
    breakdown.called =>
        /\ BreakdownReturned
        /\ LET ps == position_results
               wr == breakdown.result.win_rate
           IN  /\ ps = <<>> => wr = 0
               /\ ps # <<>> =>
                     IsQuotient(wr, D(100) * Cardinality(WinsOf(ps)), Len(ps))
               /\ wr >= 0
               /\ wr <= D(100)
               /\ wr = D(100) => Cardinality(WinsOf(ps)) = Len(ps)

\* C9: avg_win is sum(wins) / number of wins, 0 without a win; avg_loss is
\* |sum(losses)| / number of losses, 0 without a loss; neither is negative.
C9_Averages ==
    breakdown.called =>
        /\ BreakdownReturned
        /\ LET ps == position_results
               r == breakdown.result
           IN  /\ WinsOf(ps) = {} => r.avg_win = 0
               /\ WinsOf(ps) # {} =>
                     IsQuotient(r.avg_win, SumOver(ps, WinsOf(ps)), Cardinality(WinsOf(ps)))
               /\ LossesOf(ps) = {} => r.avg_loss = 0
               /\ LossesOf(ps) # {} =>
                     IsQuotient(r.avg_loss, Abs(SumOver(ps, LossesOf(ps))),
                                Cardinality(LossesOf(ps)))
               /\ r.avg_win >= 0
               /\ r.avg_loss >= 0

\* C10: for a non-empty list the expectancy returned is
\* (wins / total) * avg_win - (losses / total) * avg_loss, which is the sum of
\* the pnl over the number of events; for the empty list it is 0; computing
\* it never fails.
C10_Expectancy ==
    breakdown.called =>
        /\ BreakdownReturned
        /\ LET ps == position_results
               r == breakdown.result
           IN  /\ ps = <<>> => r.expectancy = 0
               /\ ps # <<>> =>
                     IsQuotient(r.expectancy,
                                Cardinality(WinsOf(ps)) * r.avg_win
                                    - Cardinality(LossesOf(ps)) * r.avg_loss,
                                Len(ps))

\* ---------------------------------------------------------- claims: views

RECURSIVE SumTotalPnl(_)
SumTotalPnl(rows) ==
    IF rows = <<>> THEN 0 ELSE Head(rows).total_pnl + SumTotalPnl(Tail(rows))

RECURSIVE SumTradeCount(_)
SumTradeCount(rows) ==
    IF rows = <<>> THEN 0 ELSE Head(rows).trade_count + SumTradeCount(Tail(rows))

\* The events of the list that satisfy Test, by index.
EventsWhere(ps, Test(_)) == {k \in 1..Len(ps) : Test(ps[k])}

\* The index of the first event that satisfies Test.
FirstWhere(ps, Test(_)) == CHOOSE k \in EventsWhere(ps, Test) : \A j \in EventsWhere(ps, Test) : k <= j

HasTag(p, name) == \E n \in 1..Len(p.tags) : p.tags[n] = name

\* C11: the total_pnl of the by-period groups and of the by-instrument groups
\* both add up to the sum of the pnl of all closing events, and the
\* trade_count of either view adds up to the number of closing events.
C11_AggregationIdentity ==
    views.called =>
        /\ ~views.by_timeframe.raised
        /\ ~views.by_symbol.raised
        /\ SumTotalPnl(views.by_timeframe.rows) = SumPnl(position_results)
        /\ SumTotalPnl(views.by_symbol.rows) = SumPnl(position_results)
        /\ SumTradeCount(views.by_timeframe.rows) = Len(position_results)
        /\ SumTradeCount(views.by_symbol.rows) = Len(position_results)

\* C12: the by-strategy view has one bucket per tag name in use, holding the
\* events that carry the name with their full pnl, and one "No Strategy"
\* bucket holding exactly the events without tags; the trade_count of the
\* buckets add up to at least the number of events, and to exactly that
\* number only when no event carries more than one tag.
C12_StrategyFanOut ==
    views.called =>
        /\ ~views.by_strategy.raised
        /\ LET ps == position_results
               rows == views.by_strategy.rows
               untagged == {k \in 1..Len(ps) : ps[k].tags = <<>>}
               names == {ps[k].tags[n] : <<k, n>> \in
                            {<<k, n>> \in (1..Len(ps)) \X (1..2) : n <= Len(ps[k].tags)}}
               tagged(name) == {k \in 1..Len(ps) : HasTag(ps[k], name)}
           IN  /\ {rows[n].strategy : n \in 1..Len(rows)} =
                     names \cup (IF untagged # {} THEN {"No Strategy"} ELSE {})
               /\ \A n \in 1..Len(rows) :
                     LET in_bucket == IF rows[n].strategy = "No Strategy"
                                      THEN untagged ELSE tagged(rows[n].strategy)
                     IN  /\ rows[n].trade_count = Cardinality(in_bucket)
                         /\ rows[n].total_pnl =
                               SumPnl([m \in 1..Cardinality(in_bucket) |->
                                   ps[CHOOSE k \in in_bucket :
                                        Cardinality({j \in in_bucket : j < k}) = m - 1]])
               /\ SumTradeCount(rows) >= Len(ps)
               /\ SumTradeCount(rows) = Len(ps) =>
                     \A k \in 1..Len(ps) : Len(ps[k].tags) <= 1

\* C13: the by-period view has one group per calendar month in which an
\* event closed, with trade_count the number of those events and total_pnl
\* the sum of their pnl, in strictly ascending order of the period.
C13_MonthlyGroupsAscending ==
    views.called =>
        /\ ~views.by_timeframe.raised
        /\ LET ps == position_results
               rows == views.by_timeframe.rows
               closed(period) == {k \in 1..Len(ps) : StrftimeYm(ps[k].close_date) = period}
           IN  /\ {rows[n].period : n \in 1..Len(rows)} =
                     {StrftimeYm(ps[k].close_date) : k \in 1..Len(ps)}
               /\ \A n \in 1..Len(rows) :
                     /\ rows[n].trade_count = Cardinality(closed(rows[n].period))
                     /\ rows[n].trade_count >= 1
                     /\ rows[n].total_pnl =
                           SumPnl(SelectSeq(ps, LAMBDA p : StrftimeYm(p.close_date) = rows[n].period))
               /\ \A n \in 1..(Len(rows) - 1) :
                     \/ rows[n].period[1] < rows[n + 1].period[1]
                     \/ /\ rows[n].period[1] = rows[n + 1].period[1]
                        /\ rows[n].period[2] < rows[n + 1].period[2]

\* C14: the by-instrument and the by-strategy groups come in descending order
\* of total_pnl, and groups of equal total_pnl in the order in which their
\* keys first appear among the closing events.
C14_GroupsDescendingByPnl ==
    views.called =>
        /\ ~views.by_symbol.raised
        /\ ~views.by_strategy.raised
        /\ LET ps == position_results
               by_symbol == views.by_symbol.rows
               by_strategy == views.by_strategy.rows
               first_symbol(symbol) == FirstWhere(ps, LAMBDA p : p.symbol = symbol)
               first_strategy(name) ==
                   IF name = "No Strategy"
                   THEN FirstWhere(ps, LAMBDA p : p.tags = <<>>)
                   ELSE FirstWhere(ps, LAMBDA p : HasTag(p, name))
               tag_at(name) ==
                   LET p == ps[first_strategy(name)]
                   IN  IF name = "No Strategy" THEN 1
                       ELSE CHOOSE n \in 1..Len(p.tags) : p.tags[n] = name
           IN  /\ \A n \in 1..(Len(by_symbol) - 1) :
                     /\ by_symbol[n].total_pnl >= by_symbol[n + 1].total_pnl
                     /\ by_symbol[n].total_pnl = by_symbol[n + 1].total_pnl =>
                           first_symbol(by_symbol[n].symbol) < first_symbol(by_symbol[n + 1].symbol)
               /\ \A n \in 1..(Len(by_strategy) - 1) :
                     /\ by_strategy[n].total_pnl >= by_strategy[n + 1].total_pnl
                     /\ by_strategy[n].total_pnl = by_strategy[n + 1].total_pnl =>
                           LET a == by_strategy[n].strategy
                               b == by_strategy[n + 1].strategy
                           IN  \/ first_strategy(a) < first_strategy(b)
                               \/ /\ first_strategy(a) = first_strategy(b)
                                  /\ tag_at(a) < tag_at(b)

\* ----------------------------------------------------- claims: time filter

\* The rows of the table that a "1m" selection keeps: those dated 30 days
\* before now or later.
Surviving == {k \in 1..Len(trade_table) : trade_table[k].trade_date >= DateTime(2025, 3, 1) - 30}

SurvivingBuys(symbol, close_date) ==
    {k \in Surviving : /\ trade_table[k].symbol = symbol
                       /\ trade_table[k].side = "BUY"
                       /\ trade_table[k].trade_date <= close_date}

\* C15: with the time period "1m" the trades dated before the cutoff are
\* dropped before the reconstruction starts: the reconstruction reads exactly
\* the surviving trades, a SELL without a surviving BUY before it gives no
\* closing event, and the entry price of every closing event lies among the
\* prices of the surviving BUYs of its symbol.
C15_FilterBeforeReconstruction ==
    (pc \in {"loop", "done"} /\ time_period = "1m") =>
        /\ Len(trades) = Cardinality(Surviving)
        /\ \A k \in 1..Len(trades) : \E j \in Surviving : trades[k] = trade_table[j]
        /\ \A n \in 1..Len(position_results) :
              LET p == position_results[n]
                  buys == SurvivingBuys(p.symbol, p.close_date)
              IN  /\ buys # {}
                  /\ \E j \in buys : trade_table[j].price <= p.entry_price
                  /\ \E j \in buys : trade_table[j].price >= p.entry_price

\* A SELL matched by a BUY before the cutoff at 1 and a BUY after it at 2 has
\* given a closing event with entry price 2.
C15_Witness ==
    /\ pc = "done"
    /\ time_period = "1m"
    /\ \E a, b, c \in 1..Len(trade_table) :
          /\ a < b /\ b < c
          /\ trade_table[a].symbol = trade_table[c].symbol
          /\ trade_table[b].symbol = trade_table[c].symbol
          /\ trade_table[a].side = "BUY" /\ trade_table[a].price = D(1)
          /\ trade_table[a].trade_date < DateTime(2025, 3, 1) - 30
          /\ trade_table[b].side = "BUY" /\ trade_table[b].price = D(2)
          /\ b \in Surviving
          /\ trade_table[c].side = "SELL"
          /\ c \in Surviving
    /\ Len(position_results) = 1
    /\ position_results[1].entry_price = D(2)

\* -------------------------------------------------------- claims: dashboard

RECURSIVE SumGross(_)
\* The sum of (exit_price - entry_price) * quantity over closing events.
SumGross(ps) ==
    IF ps = <<>> THEN 0
    ELSE (Head(ps).exit_price - Head(ps).entry_price) * Head(ps).quantity + SumGross(Tail(ps))

\* The dashboard's position loop run over the trades of the symbol that the
\* reconstruction has processed so far.
DashboardSoFar == DashboardSymbol(DashboardStart, SubSeq(symbol_trades, 1, i - 1))

\* C16: after each trade of a symbol the dashboard's position and avg_price
\* equal the reconstruction's position_qty and avg_price, and the dashboard's
\* total_pnl equals the sum of (exit_price - entry_price) * quantity over the
\* closing events of the reconstruction.
C16_DashboardSameAlgorithm ==
    (pc = "loop" /\ sym_i >= 1) =>
        /\ ~DashboardSoFar.raised
        /\ DashboardSoFar.position = position_qty
        /\ DashboardSoFar.avg_price = avg_price
        /\ DashboardSoFar.total_pnl = SumGross(position_results)

\* The winning SELLs the position loop counts on the rows as the query
\* returned them.
WinningSells == DashboardPositions(DashboardStart, GroupBySymbol(trades)).winning_trades

StatsReturned == stats.called /\ ~stats.raised

\* C17: the win_rate that get_dashboard_stats returns is 100 times the number
\* of SELLs with a matched pnl > 0 divided by the number of all trades, to the
\* hundredth of a percent; total_trades is the number of all trades; without
\* trades total_trades, total_pnl, win_rate and total_commission are all 0.
C17_WinRateOverRawFills ==
    StatsReturned =>
        /\ stats.total_trades = Len(trade_table)
        /\ trade_table = <<>> =>
              /\ stats.total_pnl = 0
              /\ stats.win_rate = 0
              /\ stats.total_commission = 0
        /\ trade_table # <<>> =>
              100 * Abs(stats.win_rate * Len(trade_table) - 100 * DecScale * WinningSells)
                  <= DecScale * Len(trade_table)

\* One BUY and one winning SELL: a win rate of 50 percent, where the single
\* closing event would give 100.
C17_Witness ==
    /\ StatsReturned
    /\ stats.total_trades = 2
    /\ WinningSells = 1
    /\ stats.win_rate = D(50)

\* C18: with at least one trade, best_trade is the largest and worst_trade
\* the smallest price * quantity over all trades of either side, whatever the
\* realized pnl; worst_trade is not negative and best_trade >= worst_trade.
C18_BestWorstNotional ==
    (StatsReturned /\ trade_table # <<>>) =>
        LET notional(k) == trade_table[k].price * trade_table[k].quantity
            rows == 1..Len(trade_table)
        IN  /\ ~stats.best_trade.none
            /\ ~stats.worst_trade.none
            /\ \E k \in rows : stats.best_trade.v = notional(k)
            /\ \A k \in rows : notional(k) <= stats.best_trade.v
            /\ \E k \in rows : stats.worst_trade.v = notional(k)
            /\ \A k \in rows : notional(k) >= stats.worst_trade.v
            /\ stats.worst_trade.v >= 0
            /\ stats.best_trade.v >= stats.worst_trade.v

\* A BUY of 2 at 2 is the best trade and a losing SELL of 1 at 1 the worst.
C18_Witness ==
    /\ StatsReturned
    /\ stats.total_pnl < 0
    /\ stats.best_trade.v = D(4)
    /\ stats.worst_trade.v = D(1)
    /\ \E k \in 1..Len(trade_table) :
          /\ trade_table[k].side = "BUY"
          /\ trade_table[k].price * trade_table[k].quantity = D(4)

\* --------------------------------------------------------- claims: validation

\* A trade that is no valid fill.
Invalid(t) == t.side \notin {"BUY", "SELL"} \/ t.quantity < 0

\* C19: a trade with a side other than BUY and SELL, or with a negative
\* quantity, is never processed: the step that meets it leaves the closing
\* events, the open quantity and the average price as they are, and the
\* analysis and the dashboard of a user with such a trade end in a validation
\* error.
C19_InvalidFillFailsFast ==
    [][/\ (pc = "loop" /\ ~InnerLoopDone /\ Invalid(trade)) =>
            /\ UNCHANGED <<position_results, position_qty, avg_price>>
            /\ pc' = "done"
            /\ caught' = "ValidationError"
       /\ (pc' = "done" /\ \E k \in 1..Len(trades') : Invalid(trades'[k])) =>
            caught' = "ValidationError"
       /\ (\E k \in 1..Len(trade_table) : Invalid(trade_table[k])) =>
            /\ DashboardStats(trade_table).raised
            /\ DashboardStats(trade_table).exc = "ValidationError"
      ]_vars

\* ------------------------------------------------------ claims: BUY average

\* The trades of the symbol processed so far.
Processed == SubSeq(symbol_trades, 1, i - 1)

RECURSIVE SumQuantity(_)
SumQuantity(ts) == IF ts = <<>> THEN 0 ELSE Head(ts).quantity + SumQuantity(Tail(ts))

RECURSIVE SumCost(_)
\* The sum of price * quantity over the trades.
SumCost(ts) == IF ts = <<>> THEN 0 ELSE Head(ts).price * Head(ts).quantity + SumCost(Tail(ts))

\* The processed trades end in a run of BUYs that started from a flat
\* position: the trades from r on are BUYs and their quantities make up the
\* whole open quantity.
IsBuyRun(r) ==
    /\ r \in 1..(i - 1)
    /\ \A k \in r..(i - 1) : symbol_trades[k].side = "BUY"
    /\ SumQuantity(SubSeq(symbol_trades, r, i - 1)) = position_qty

InBuyRun == pc = "loop" /\ sym_i >= 1 /\ \E r \in 1..(i - 1) : IsBuyRun(r)

BuyRun == SubSeq(symbol_trades, CHOOSE r \in 1..(i - 1) : IsBuyRun(r), i - 1)

FlatAlone == [qty |-> 0, avg |-> 0, events |-> <<>>]

TradeAlone(st, t) ==
    IF t.side = "BUY"
    THEN [st EXCEPT !.avg = IF st.qty = 0 THEN t.price
                            ELSE DecDiv(st.avg * st.qty + t.price * t.quantity,
                                        st.qty + t.quantity),
                    !.qty = @ + t.quantity]
    ELSE IF st.qty > 0
    THEN LET closed == IF t.quantity <= st.qty THEN t.quantity ELSE st.qty
         IN  [qty |-> st.qty - closed,
              avg |-> IF st.qty - closed = 0 THEN 0 ELSE st.avg,
              events |-> Append(st.events,
                            [quantity |-> closed, entry_price |-> st.avg,
                             exit_price |-> t.price,
                             pnl |-> (t.price - st.avg) * closed - t.commission])]
    ELSE st

RECURSIVE Alone(_)
Alone(ts) ==
    IF ts = <<>> THEN FlatAlone
    ELSE TradeAlone(Alone(SubSeq(ts, 1, Len(ts) - 1)), ts[Len(ts)])

\* The trades of the symbol among those supplied, by date, ties in the order
\* supplied.
FillsOf(symbol) ==
    LET own == SelectSeq(trades, LAMBDA t : t.symbol = symbol)
        before(a, b) == \/ own[a].trade_date < own[b].trade_date
                        \/ own[a].trade_date = own[b].trade_date /\ a < b
        place(a) == 1 + Cardinality({b \in 1..Len(own) : before(b, a)})
    IN  [n \in 1..Len(own) |-> own[CHOOSE a \in 1..Len(own) : place(a) = n]]

\* The closing events of the symbol, reduced to quantity, prices and pnl.
EventsOf(symbol) ==
    LET own == SelectSeq(position_results, LAMBDA p : p.symbol = symbol)
    IN  [n \in 1..Len(own) |->
            [quantity |-> own[n].quantity, entry_price |-> own[n].entry_price,
             exit_price |-> own[n].exit_price, pnl |-> own[n].pnl]]

\* C22: the closing events of a symbol are a function of the trades of that
\* symbol alone: once _calculate_positions_pnl has returned, the quantities,
\* entry and exit prices and pnl of the events of each symbol are those of
\* the reconstruction run on that symbol's trades without the others.
C22_SymbolsIndependent ==
    pc = "returned" =>
        \A symbol \in Symbols : EventsOf(symbol) = Alone(FillsOf(symbol)).events

\* A trade of MSFT was supplied between the BUY and the SELL of AAPL, and
\* AAPL has its closing event.
C22_Witness ==
    /\ pc = "returned"
    /\ Len(trades) = 3
    /\ trades[1].symbol = "AAPL" /\ trades[1].side = "BUY"
    /\ trades[2].symbol = "MSFT" /\ trades[2].side = "SELL"
    /\ trades[3].symbol = "AAPL" /\ trades[3].side = "SELL"
    /\ trades[1].trade_date = trades[3].trade_date
    /\ Len(EventsOf("AAPL")) = 1
    /\ EventsOf("MSFT") = <<>>

\* C23: the trades of a symbol are processed one after the other in
\* non-decreasing order of trade_date, trades of the same date in the order
\* in which they were supplied; a SELL gives a closing event only if a BUY of
\* the symbol has an earlier date or has the same date and was supplied
\* before it.
C23_StableDateOrder ==
    [][/\ (pc' = "loop" /\ sym_i' >= 1) =>
            LET ts == positions'[sym_i'].symbol_trades
            IN  \A a, b \in 1..Len(ts) :
                   a < b => \/ ts[a].trade_date < ts[b].trade_date
                            \/ /\ ts[a].trade_date = ts[b].trade_date
                               /\ ts[a].id < ts[b].id
       /\ (pc = "loop" /\ ~InnerLoopDone) => i' = i + 1
       /\ (pc = "loop" /\ position_results' # position_results) =>
            \E k \in 1..Len(trades) :
               /\ trades[k].symbol = trade.symbol
               /\ trades[k].side = "BUY"
               /\ \/ trades[k].trade_date < trade.trade_date
                  \/ /\ trades[k].trade_date = trade.trade_date
                     /\ k < trade.id
      ]_vars

\* A SELL and then a BUY of 20 February were supplied before a BUY of 15
\* January: the January BUY is processed first, the SELL closes it, and the
\* February BUY stays behind the SELL supplied before it.
C23_Witness ==
    /\ pc = "returned"
    /\ Len(trades) = 3
    /\ \A k \in 1..3 : trades[k].symbol = "AAPL"
    /\ trades[1].side = "SELL" /\ trades[1].trade_date = DateTime(2025, 2, 20)
    /\ trades[2].side = "BUY" /\ trades[2].trade_date = DateTime(2025, 2, 20)
    /\ trades[3].side = "BUY" /\ trades[3].trade_date = DateTime(2025, 1, 15)
    /\ positions[1].symbol_trades = <<trades[3], trades[1], trades[2]>>
    /\ Len(position_results) = 1
    /\ position_qty = 1

\* C27: a closing event is appended only when a BUY of the symbol comes
\* before the SELL in the sorted list, so the tags and the hold time are
\* never those of the case without an opening trade, and no hold time is
\* negative.
C27_EventHasPriorBuy ==
    [][(pc = "loop" /\ position_results' # position_results) =>
            /\ OpeningTrades(symbol_trades, i) # <<>>
            /\ \E k \in 1..(i - 1) : symbol_trades[k].side = "BUY"
            /\ LastEvent(position_results').hold_time >= 0
      ]_vars

\* A BUY of 15 January closed by a SELL of 20 February: a hold time of 36
\* days.
C27_Witness ==
    /\ pc = "returned"
    /\ position_results # <<>>
    /\ LastEvent(position_results).hold_time = DateTime(2025, 2, 20) - DateTime(2025, 1, 15)
    /\ LastEvent(position_results).hold_time > 0

\* ------------------------------------------------ claims: conservation

\* The quantities of the BUY trades among those given.
BoughtQuantity(ts) == SumQuantity(SelectSeq(ts, LAMBDA t : t.side = "BUY"))

RECURSIVE ClosedQuantity(_)
\* The quantities of the closing events, added up.
ClosedQuantity(ps) == IF ps = <<>> THEN 0 ELSE Head(ps).quantity + ClosedQuantity(Tail(ps))

\* C24: after every trade of the symbol, the quantities of the BUYs processed
\* so far add up to the quantities of the closing events of the symbol so
\* far plus the open quantity.
C24_QuantityConserved ==
    (pc = "loop" /\ sym_i >= 1) =>
        BoughtQuantity(Processed) =
            ClosedQuantity(SelectSeq(position_results,
                                     LAMBDA p : p.symbol = positions[sym_i].symbol))
            + position_qty

\* A BUY of 1 and a SELL of 2 have been processed: 1 bought, 1 closed, none
\* open, the second unit of the SELL dropped.
C24_Witness ==
    /\ AfterStep
    /\ i = 3
    /\ symbol_trades[1].side = "BUY" /\ symbol_trades[1].quantity = 1
    /\ symbol_trades[2].side = "SELL" /\ symbol_trades[2].quantity = 2
    /\ ClosedQuantity(position_results) = 1
    /\ position_qty = 0

\* ------------------------------------------------- claims: faults at the edge

\* C25: get_dashboard_stats returns a DashboardStats for every list of valid
\* trades (side BUY or SELL, positive quantity and price), a SELL larger than
\* the open position followed by BUYs included: no division by zero or other
\* arithmetic fault leaves it.
C25_DashboardAlwaysReturns ==
    (stats.called /\ \A k \in 1..Len(trade_table) :
                        /\ trade_table[k].side \in {"BUY", "SELL"}
                        /\ trade_table[k].quantity > 0
                        /\ trade_table[k].price > 0) =>
        /\ ~stats.raised
        /\ stats.total_trades = Len(trade_table)

\* C26: get_win_loss_analysis hands an analysis back whatever happens on the
\* way: when a step has raised, the analysis has the all-zero breakdown and
\* empty by_timeframe, by_symbol and by_strategy lists; and in every outcome
\* its time_period is the one the method was called with.
C26_AnalysisNeverRaises ==
    pc = "done" =>
        /\ analysis.returned
        /\ analysis.time_period = time_period
        /\ caught # "" =>
              /\ analysis.overall = _empty_breakdown
              /\ analysis.by_timeframe = <<>>
              /\ analysis.by_symbol = <<>>
              /\ analysis.by_strategy = <<>>

\* The breakdown of a closing event has raised under the period "1m" and the
\* empty analysis for "1m" has come back.
C26_Witness ==
    /\ pc = "done"
    /\ caught = "TypeError"
    /\ time_period = "1m"
    /\ position_results # <<>>
    /\ analysis.returned
    /\ analysis.time_period = "1m"

\* ------------------------------------------------------- claims: attribution

\* The place of the last BUY before position i in the symbol's sorted list.
LastBuyBefore == CHOOSE b \in 1..(i - 1) :
                    /\ symbol_trades[b].side = "BUY"
                    /\ \A k \in (b + 1)..(i - 1) : symbol_trades[k].side # "BUY"

\* The names of the tags that the tables associate with the trade.
NamesOn(trade_id) ==
    {tag.name : tag \in {tag \in trade_tags :
                            [trade_id |-> trade_id, tag_id |-> tag.id] \in trade_tag_associations}}

\* C21: a closing event has the tags of the last BUY that comes before the
\* SELL in the symbol's sorted list, and its hold time is the SELL's
\* trade_date minus that BUY's, whichever BUYs made up the average and also
\* when that BUY came after the position was opened.
C21_TagsOfMostRecentBuy ==
    [][(pc = "loop" /\ position_results' # position_results) =>
            LET e == LastEvent(position_results')
                last_buy == symbol_trades[LastBuyBefore]
            IN  /\ {e.tags[n] : n \in 1..Len(e.tags)} = NamesOn(last_buy.id)
                /\ Len(e.tags) = Cardinality(NamesOn(last_buy.id))
                /\ e.hold_time = trade.trade_date - last_buy.trade_date
      ]_vars

\* A BUY of 15 January tagged "swing", an untagged BUY of 20 February, then
\* a SELL of 20 February: the closing event has no tag and a hold time of 0,
\* those of the February BUY.
C21_Witness ==
    /\ pc = "returned"
    /\ Len(trades) = 3
    /\ trades[1].side = "BUY" /\ trades[1].trade_date = DateTime(2025, 1, 15)
    /\ trades[2].side = "BUY" /\ trades[2].trade_date = DateTime(2025, 2, 20)
    /\ trades[3].side = "SELL" /\ trades[3].trade_date = DateTime(2025, 2, 20)
    /\ NamesOn(1) = {"swing"}
    /\ NamesOn(2) = {}
    /\ Len(position_results) = 1
    /\ position_results[1].tags = <<>>
    /\ position_results[1].hold_time = 0

\* ------------------------------------------------- claims: strategy buckets

\* C28: in the by-strategy grouping no closing event is in a bucket more
\* than once, whatever its tags: no bucket holds more entries than there are
\* events that belong to it, none more than there are events at all, and the
\* pnl of the "No Strategy" bucket add up to the pnl of the untagged events.
C28_EventOncePerBucket ==
    views.called =>
        LET ps == position_results
            groups == strategy_groups(ps)
            untagged == SelectSeq(ps, LAMBDA p : p.tags = <<>>)
        IN  \A n \in 1..Len(groups) :
               LET name == groups[n].strategy
                   bucket == groups[n].strategy_positions
                   belonging == {k \in 1..Len(ps) :
                                    \/ HasTag(ps[k], name)
                                    \/ name = "No Strategy" /\ ps[k].tags = <<>>}
               IN  /\ Len(bucket) <= Cardinality(belonging)
                   /\ Len(bucket) <= Len(ps)
                   /\ name = "No Strategy" => SumPnl(bucket) = SumPnl(untagged)

====
